---------------------------- MODULE Spec2Model ----------------------------
(***************************************************************************)
(* Model of the cognitive-honeypot request classification, risk scoring    *)
(* and deception engine: web_honeypot.py (signature matcher, per-identity  *)
(* counter, analyze_request, the Flask handlers) and genai_engine.py       *)
(* (generate_response and its content generators), and the shell session   *)
(* of ssh_honeypot.py (handle_client).                                     *)
(*                                                                         *)
(* Texts are TLA+ strings; Len, SubSeq and \o act on them character by     *)
(* character, so the substring tests and the regular expressions of the    *)
(* source are computed on the characters of the text.                      *)
(***************************************************************************)
EXTENDS Integers, Sequences, FiniteSets, TLC

VARIABLES failed_attempts, worker, increments, gen, ssh, calls

vars == <<failed_attempts, worker, increments, gen, ssh, calls>>

-----------------------------------------------------------------------------
(* Bounds of the model *)

\* an identity sends no further admin/login request once MaxCount of its
\* requests have incremented its counter
MaxCount == 7

\* random.randint(a, b) is drawn from the RandWidth lowest and the
\* RandWidth highest values of a..b
RandWidth == 1

-----------------------------------------------------------------------------
(* Text primitives: str.lower, the "in" operator on str, re.search pieces *)

Min(a, b) == IF a < b THEN a ELSE b

Max(a, b) == IF a > b THEN a ELSE b

CharAt(s, i) == SubSeq(s, i, i)

UPPERCASE == "ABCDEFGHIJKLMNOPQRSTUVWXYZ"

LOWERCASE == "abcdefghijklmnopqrstuvwxyz"

DIGITS == "0123456789"

LowerChar(c) ==
    IF \E i \in 1..Len(UPPERCASE) : CharAt(UPPERCASE, i) = c
    THEN CharAt(LOWERCASE, CHOOSE i \in 1..Len(UPPERCASE) : CharAt(UPPERCASE, i) = c)
    ELSE c

RECURSIVE lower(_)
lower(s) == IF Len(s) = 0 THEN "" ELSE LowerChar(CharAt(s, 1)) \o lower(SubSeq(s, 2, Len(s)))

\* the literal lit occurs in s starting at position i
StartsAt(s, i, lit) ==
    /\ i >= 1
    /\ i + Len(lit) - 1 <= Len(s)
    /\ SubSeq(s, i, i + Len(lit) - 1) = lit

\* Python: lit in s
Contains(s, lit) == \E i \in 1..(Len(s) + 1) : StartsAt(s, i, lit)

\* regex \w on the lowercased ASCII text
IsWordChar(c) ==
    \/ \E i \in 1..Len(LOWERCASE) : CharAt(LOWERCASE, i) = c
    \/ \E i \in 1..Len(UPPERCASE) : CharAt(UPPERCASE, i) = c
    \/ \E i \in 1..Len(DIGITS) : CharAt(DIGITS, i) = c
    \/ c = "_"

\* regex \s
IsSpace(c) == c \in {" ", "\t", "\n", "\r", "\f"}

WordAt(s, i) == i >= 1 /\ i <= Len(s) /\ IsWordChar(CharAt(s, i))

\* regex \b between positions i-1 and i
Boundary(s, i) == WordAt(s, i - 1) # WordAt(s, i)

\* regex .* (no DOTALL) spanning positions a..b: no newline among them
DotStar(s, a, b) == \A k \in a..b : CharAt(s, k) # "\n"

\* regex  first.*second
MatchThen(s, first, second) ==
    \E i \in 1..Len(s) :
        /\ StartsAt(s, i, first)
        /\ \E j \in (i + Len(first))..Len(s) :
               /\ StartsAt(s, j, second)
               /\ DotStar(s, i + Len(first), j - 1)

\* regex  \bword\b.*second
MatchWordThen(s, word, second) ==
    \E i \in 1..Len(s) :
        /\ StartsAt(s, i, word)
        /\ Boundary(s, i)
        /\ Boundary(s, i + Len(word))
        /\ \E j \in (i + Len(word))..Len(s) :
               /\ StartsAt(s, j, second)
               /\ DotStar(s, i + Len(word), j - 1)

\* regex  first\s+second
MatchSpaces(s, first, second) ==
    \E i \in 1..Len(s) :
        /\ StartsAt(s, i, first)
        /\ \E j \in (i + Len(first) + 1)..Len(s) :
               /\ StartsAt(s, j, second)
               /\ \A k \in (i + Len(first))..(j - 1) : IsSpace(CharAt(s, k))

-----------------------------------------------------------------------------
(* Signature matcher: web_honeypot.py *)

\* SQLI_PATTERNS, one disjunct per pattern, on the lowercased payload
SQLI_PATTERNS(p) ==
    \/ \E w \in {"or", "and"} : \E c \in {"=", "like"} : MatchWordThen(p, w, c)
    \/ MatchThen(p, "union", "select")
    \/ MatchThen(p, "select", "from")
    \/ MatchSpaces(p, "drop", "table")
    \/ Contains(p, "'--")
    \/ Contains(p, "\"--")
    \/ Contains(p, ";--")

\* XSS_PATTERNS, one disjunct per pattern, on the lowercased payload
XSS_PATTERNS(p) ==
    \/ MatchThen(p, "<script", ">")
    \/ Contains(p, "javascript:")
    \/ Contains(p, "onerror=")
    \/ Contains(p, "onload=")

is_sqli(payload) == SQLI_PATTERNS(lower(payload))

is_xss(payload) == XSS_PATTERNS(lower(payload))

-----------------------------------------------------------------------------
(* Sources of randomness and time, bounded *)

\* random.randint(a, b): the RandWidth lowest and highest values of a..b
randint(a, b) == (a..Min(b, a + RandWidth - 1)) \cup (Max(a, b - RandWidth + 1)..b)

\* random.choice(seq)
choice(seq) == {seq[i] : i \in 1..Len(seq)}

Rotate(seq, r) == [i \in 1..Len(seq) |-> seq[((i - 1 + r) % Len(seq)) + 1]]

\* random.sample(population, k): k distinct elements in selection order; the
\* selection orders are bounded to the rotations of the population
sample(population, k) ==
    {SubSeq(Rotate(population, r), 1, k) : r \in 0..(Len(population) - 1)}

\* datetime.now(UTC).isoformat()
Now == {"2026-01-01T00:00:00+00:00"}

RECURSIVE join(_, _)
\* sep.join(seq)
join(sep, seq) ==
    IF Len(seq) = 0 THEN ""
    ELSE IF Len(seq) = 1 THEN seq[1]
    ELSE seq[1] \o sep \o join(sep, Tail(seq))

-----------------------------------------------------------------------------
(* Deception content generators: genai_engine.py.  Each is the set of texts *)
(* one call can return.                                                     *)

FAKE_FILES ==
    <<"users.db", "config.yaml", "backup.sql", "secrets.txt",
      "logs.txt", "app.py", "admin_panel.php">>

FAKE_PASSWORDS == <<"P@ssw0rd!", "admin123", "changeme", "root@123", "welcome1">>

juicy_secrets ==
    {"\n# Leaked Secrets (FAKE)\nDB_USER=admin\nDB_PASS=" \o pw
        \o "\nAPI_KEY=sk-" \o ToString(key)
        \o "\nAWS_SECRET=AKIA" \o ToString(aws)
        \o "\nLAST_ROTATED=" \o t \o "\n" :
        pw \in choice(FAKE_PASSWORDS), key \in randint(1000000, 9999999),
        aws \in randint(10000000, 99999999), t \in Now}

\* variant: the listing drawn with at least two entries instead of three
fake_ls_from_two ==
    {join("\n", files) :
        files \in UNION {sample(FAKE_FILES, k) : k \in randint(2, Len(FAKE_FILES))}}

fake_ls ==
    {join("\n", files) :
        files \in UNION {sample(FAKE_FILES, k) : k \in randint(3, Len(FAKE_FILES))}}

fake_error ==
    choice(<<"Permission denied.", "Access denied.", "Internal server error.",
             "Invalid request.", "Operation failed.">>)

fake_account_locked ==
    {"Account temporarily locked due to too many failed attempts."}

fake_admin_page ==
    {"\n<h2>Admin Dashboard</h2>\n<p>Status: OK</p>\n"
        \o "<p>Active Users: admin, backup, service</p>\n<p>Last Backup: "
        \o ToString(day) \o "/0" \o ToString(month) \o "/2026</p>\n" :
        day \in randint(1, 28), month \in randint(1, 9)}

\* variant: the high-risk test written "> 5"
generate_response_above(attack_type, risk_score, path) ==
    IF /\ risk_score > 5
       /\ \/ Contains(attack_type, "Scanner")
          \/ Contains(attack_type, "SQLi")
          \/ Contains(attack_type, "XSS")
    THEN juicy_secrets
    ELSE IF risk_score > 5 /\ Contains(attack_type, "Bruteforce")
    THEN fake_account_locked
    ELSE IF Contains(attack_type, "Scanner")
    THEN fake_ls
    ELSE IF Contains(attack_type, "SQLi") \/ Contains(attack_type, "XSS")
    THEN fake_error
    ELSE IF Contains(lower(path), "admin")
    THEN fake_admin_page
    ELSE fake_error

\* variant: the final "return fake_error()" left out
generate_response_no_fallback(attack_type, risk_score, path) ==
    IF /\ risk_score >= 5
       /\ \/ Contains(attack_type, "Scanner")
          \/ Contains(attack_type, "SQLi")
          \/ Contains(attack_type, "XSS")
    THEN juicy_secrets
    ELSE IF risk_score >= 5 /\ Contains(attack_type, "Bruteforce")
    THEN fake_account_locked
    ELSE IF Contains(attack_type, "Scanner")
    THEN fake_ls
    ELSE IF Contains(attack_type, "SQLi") \/ Contains(attack_type, "XSS")
    THEN fake_error
    ELSE IF Contains(lower(path), "admin")
    THEN fake_admin_page
    ELSE {""}

\* generate_response returns generate_response_at(...) after the line
\* "attack_type = attack_type or 'Normal'"
generate_response_at(attack_type, risk_score, path) ==
    IF /\ risk_score >= 5
       /\ \/ Contains(attack_type, "Scanner")
          \/ Contains(attack_type, "SQLi")
          \/ Contains(attack_type, "XSS")
    THEN juicy_secrets
    ELSE IF risk_score >= 5 /\ Contains(attack_type, "Bruteforce")
    THEN fake_account_locked
    ELSE IF Contains(attack_type, "Scanner")
    THEN fake_ls
    ELSE IF Contains(attack_type, "SQLi") \/ Contains(attack_type, "XSS")
    THEN fake_error
    ELSE IF Contains(lower(path), "admin")
    THEN fake_admin_page
    ELSE fake_error

\* the set of texts generate_response(attack_type, risk_score, path) can return
generate_response(attack_type, risk_score, path) ==
    generate_response_at(IF attack_type = "" THEN "Normal" ELSE attack_type,
                         risk_score, path)

-----------------------------------------------------------------------------
(* The requests of the model *)

\* source identities (X-Forwarded-For or the remote address)
Identities == {"10.0.0.1", "10.0.0.2"}

\* request threads of the server, one per request in flight
Workers == {"w1", "w2"}

Methods == {"GET", "POST"}

\* submitted login forms
Forms ==
    {[username |-> "admin", password |-> "admin123"],
     [username |-> "admin' OR '1'='1", password |-> "test"],
     [username |-> "x' OR 1=1--", password |-> "<script>alert(1)</script>"]}

\* request bodies sent to other paths
Bodies ==
    {"", "q=hello", "id=1 UNION SELECT pw FROM users",
     "<img src=x onerror=alert(1)>", "admin' OR '1'='1<script>x</script>"}

\* values of any_path in the catch-all route
AnyPaths == {"phpmyadmin", "Admin", "index.html", "admin/.env", "q/' OR 1=1--"}

\* every payload text and every path a request of the model can carry
Payloads == {""} \cup Bodies \cup {f.username \o " " \o f.password : f \in Forms}

Paths == {"/", "/admin", "/login"} \cup {"/" \o any_path : any_path \in AnyPaths}

\* is_sqli, is_xss and the scanner test of analyze_request, evaluated once
\* for every text of the model
SqliPayloads == {d \in Payloads : is_sqli(d)}

XssPayloads == {d \in Payloads : is_xss(d)}

\* variant: "admin" among the reconnaissance markers
ScannerPathsWithAdmin ==
    {path \in Paths : \E p \in {"phpmyadmin", "wp-admin", ".env", "config", "admin"} :
                          Contains(lower(path), p)}

ScannerPaths ==
    {path \in Paths : \E p \in {"phpmyadmin", "wp-admin", ".env", "config"} :
                          Contains(lower(path), p)}

-----------------------------------------------------------------------------
(* Risk scorer: web_honeypot.py analyze_request, cut where it reads or      *)
(* writes the shared counter failed_attempts                                *)

SQLI_WEIGHT == 5

XSS_WEIGHT == 5

BRUTEFORCE_WEIGHT == 3

SCANNER_WEIGHT == 2

BRUTEFORCE_THRESHOLD == 5

\* the paths of "if path in [...]"
ADMIN_PATHS == {"/admin", "/login"}

\* variant: the script-injection check skipped after an SQL-injection hit
SignaturesFirstMatch(data_str) ==
    IF data_str \in SqliPayloads
    THEN [risk |-> SQLI_WEIGHT, tags |-> <<"SQLi">>]
    ELSE IF data_str \in XssPayloads
    THEN [risk |-> XSS_WEIGHT, tags |-> <<"XSS">>]
    ELSE [risk |-> 0, tags |-> <<>>]

\* risk = 0; tags = []; the is_sqli and the is_xss checks
Signatures(data_str) ==
    LET s1 == IF data_str \in SqliPayloads
              THEN [risk |-> SQLI_WEIGHT, tags |-> <<"SQLi">>]
              ELSE [risk |-> 0, tags |-> <<>>]
    IN  IF data_str \in XssPayloads
        THEN [risk |-> s1.risk + XSS_WEIGHT, tags |-> Append(s1.tags, "XSS")]
        ELSE s1

\* variant: the threshold test written ">= 5"
BruteforceAtThreshold(s, count) ==
    IF count >= BRUTEFORCE_THRESHOLD
    THEN [risk |-> s.risk + BRUTEFORCE_WEIGHT, tags |-> Append(s.tags, "Bruteforce")]
    ELSE s

\* variant: the behavioural signal weighted like a signature
BruteforceHeavy(s, count) ==
    IF count > BRUTEFORCE_THRESHOLD
    THEN [risk |-> s.risk + SQLI_WEIGHT, tags |-> Append(s.tags, "Bruteforce")]
    ELSE s

\* if failed_attempts[ip] > 5, with count the value that read returns
Bruteforce(s, count) ==
    IF count > BRUTEFORCE_THRESHOLD
    THEN [risk |-> s.risk + BRUTEFORCE_WEIGHT, tags |-> Append(s.tags, "Bruteforce")]
    ELSE s

\* variant: the scanner tag appended without its weight
ScannerNoWeight(s, path) ==
    IF path \in ScannerPaths
    THEN [risk |-> s.risk, tags |-> Append(s.tags, "Scanner")]
    ELSE s

\* variant: the scanner tag put in front of the tags found so far
ScannerFirst(s, path) ==
    IF path \in ScannerPaths
    THEN [risk |-> s.risk + SCANNER_WEIGHT, tags |-> <<"Scanner">> \o s.tags]
    ELSE s

\* the scanner check
Scanner(s, path) ==
    IF path \in ScannerPaths
    THEN [risk |-> s.risk + SCANNER_WEIGHT, tags |-> Append(s.tags, "Scanner")]
    ELSE s

\* variant: every score under the high-risk threshold gets the sentinel
LowRiskBelowHigh(s) ==
    IF s.risk < 5 THEN [risk |-> s.risk, tags |-> Append(s.tags, "Low-Risk")] ELSE s

\* if risk == 0: tags.append("Low-Risk")
LowRisk(s) ==
    IF s.risk = 0 THEN [risk |-> s.risk, tags |-> Append(s.tags, "Low-Risk")] ELSE s

\* what analyze_request returns once the brute-force block is behind it
Finish(s, path) == LowRisk(Scanner(s, path))

-----------------------------------------------------------------------------
(* The Flask application: web_honeypot.py *)

LOGIN_PAGE == "\n<!DOCTYPE html>\n<html>\n<head>\n    <title>Admin Login</title>\n</head>\n"

INDEX_TEXT == "Web Honeypot is running. Try /admin or /login"

INVALID_CREDENTIALS == "Invalid credentials. Please try again."

\* app.route: the view function a path is dispatched to
Route(path) ==
    IF path = "/" THEN "index"
    ELSE IF path \in ADMIN_PATHS THEN "fake_login"
    ELSE "catch_all"

IdleWorker ==
    [pc |-> "idle", view |-> "", ip |-> "", method |-> "", path |-> "", data |-> "",
     risk |-> 0, tags |-> <<>>, tmp |-> 0, nth |-> 0, seen |-> 0,
     logged |-> 0, status |-> 0, body |-> {}]

\* a worker takes a new request when it is handling none
Free(w) == worker[w].pc \in {"idle", "done"}

\* the first tags analyze_request can return, and "Normal"
AttackTypes == {"SQLi", "XSS", "Bruteforce", "Scanner", "Low-Risk", "Normal"}

MaxRisk == SQLI_WEIGHT + XSS_WEIGHT + BRUTEFORCE_WEIGHT + SCANNER_WEIGHT

\* generate_response, evaluated once for every call the handlers can make
Responses ==
    [attack_type \in AttackTypes, risk \in 0..MaxRisk, path \in Paths |->
        generate_response(attack_type, risk, path)]

\* variant: fake_login answers a POST through generate_response as well
RespondThroughSelector(r, s) ==
    LET logged == [r EXCEPT !.risk = s.risk, !.tags = s.tags, !.logged = 1, !.pc = "done"]
        attack_type == IF Len(s.tags) > 0 THEN s.tags[1] ELSE "Normal"
    IN  IF r.view = "fake_login" /\ r.method = "GET"
        THEN [logged EXCEPT !.body = {LOGIN_PAGE}, !.status = 200]
        ELSE [logged EXCEPT !.body = Responses[attack_type, s.risk, r.path],
                            !.status = 200]

\* variant: a login that succeeds with the right credentials
RespondGrantingAccess(r, s) ==
    LET logged == [r EXCEPT !.risk = s.risk, !.tags = s.tags, !.logged = 1, !.pc = "done"]
    IN  IF r.view = "fake_login"
        THEN IF r.method = "POST"
             THEN IF r.data = "admin admin123"
                  THEN [logged EXCEPT !.body = {"Welcome, admin"}, !.status = 200]
                  ELSE [logged EXCEPT !.body = {INVALID_CREDENTIALS}, !.status = 401]
             ELSE [logged EXCEPT !.body = {LOGIN_PAGE}, !.status = 200]
        ELSE LET attack_type == IF Len(s.tags) > 0 THEN s.tags[1] ELSE "Normal"
             IN  [logged EXCEPT !.body = Responses[attack_type, s.risk, r.path],
                                !.status = 200]

\* log_event and the return statement of fake_login and of catch_all, given
\* the (risk, tags) analyze_request returned.  body is the set of texts the
\* return statement can yield: one text, or the texts the random content of
\* generate_response ranges over.
Respond(r, s) ==
    LET logged == [r EXCEPT !.risk = s.risk, !.tags = s.tags, !.logged = 1, !.pc = "done"]
    IN  IF r.view = "fake_login"
        THEN IF r.method = "POST"
             THEN [logged EXCEPT !.body = {INVALID_CREDENTIALS}, !.status = 401]
             ELSE [logged EXCEPT !.body = {LOGIN_PAGE}, !.status = 200]
        ELSE LET attack_type == IF Len(s.tags) > 0 THEN s.tags[1] ELSE "Normal"
             IN  [logged EXCEPT !.body = Responses[attack_type, s.risk, r.path],
                                !.status = 200]

\* variant: every path that contains "admin" counted as an admin/login path
EnterCountingAdminLike(w, view, ip, method, path, data_str) ==
    LET r == [IdleWorker EXCEPT !.view = view, !.ip = ip, !.method = method,
                                !.path = path, !.data = data_str]
        s == Signatures(data_str)
    IN  IF path \in ADMIN_PATHS \/ Contains(lower(path), "admin")
        THEN /\ increments[ip] < MaxCount
             /\ worker' = [worker EXCEPT ![w] =
                    [r EXCEPT !.risk = s.risk, !.tags = s.tags, !.pc = "load"]]
        ELSE worker' = [worker EXCEPT ![w] = Respond(r, Finish(s, path))]

\* a view function up to the first access of analyze_request to the counter,
\* or to its return when the path is not an admin/login path
Enter(w, view, ip, method, path, data_str) ==
    LET r == [IdleWorker EXCEPT !.view = view, !.ip = ip, !.method = method,
                                !.path = path, !.data = data_str]
        s == Signatures(data_str)
    IN  IF path \in ADMIN_PATHS
        THEN /\ increments[ip] < MaxCount
             /\ worker' = [worker EXCEPT ![w] =
                    [r EXCEPT !.risk = s.risk, !.tags = s.tags, !.pc = "load"]]
        ELSE worker' = [worker EXCEPT ![w] = Respond(r, Finish(s, path))]

\* index(): no analysis, no event
Index(w, ip) ==
    /\ Free(w)
    /\ worker' = [worker EXCEPT ![w] =
           [IdleWorker EXCEPT !.pc = "done", !.view = "index", !.ip = ip,
                              !.method = "GET", !.path = "/",
                              !.body = {INDEX_TEXT}, !.status = 200]]
    /\ UNCHANGED <<failed_attempts, increments, gen, ssh, calls>>

\* fake_login(), on /admin and /login
FakeLogin(w, ip, method, path, form) ==
    /\ Free(w)
    /\ Route(path) = "fake_login"
    /\ Enter(w, "fake_login", ip, method, path,
             IF method = "POST" THEN form.username \o " " \o form.password ELSE "")
    /\ UNCHANGED <<failed_attempts, increments, gen, ssh, calls>>

\* variant: the body read whatever the method is
CatchAllReadingEveryBody(w, ip, method, any_path, body) ==
    /\ Free(w)
    /\ Route("/" \o any_path) = "catch_all"
    /\ Enter(w, "catch_all", ip, method, "/" \o any_path, body)
    /\ UNCHANGED <<failed_attempts, increments, gen, ssh, calls>>

\* catch_all(any_path)
CatchAll(w, ip, method, any_path, body) ==
    /\ Free(w)
    /\ Route("/" \o any_path) = "catch_all"
    /\ Enter(w, "catch_all", ip, method, "/" \o any_path,
             IF method = "POST" THEN body ELSE "")
    /\ UNCHANGED <<failed_attempts, increments, gen, ssh, calls>>

\* variant: the counter guarded by one lock held from the read to the
\* comparison
LoadUnderLock(w) ==
    /\ worker[w].pc = "load"
    /\ \A o \in Workers \ {w} : worker[o].pc \notin {"store", "check"}
    /\ worker' = [worker EXCEPT ![w].tmp = failed_attempts[worker[w].ip],
                                ![w].pc = "store"]
    /\ UNCHANGED <<failed_attempts, increments, gen, ssh, calls>>

\* failed_attempts[ip] += 1, the read
Load(w) ==
    /\ worker[w].pc = "load"
    /\ worker' = [worker EXCEPT ![w].tmp = failed_attempts[worker[w].ip],
                                ![w].pc = "store"]
    /\ UNCHANGED <<failed_attempts, increments, gen, ssh, calls>>

\* failed_attempts[ip] += 1, the write
Store(w) ==
    LET ip == worker[w].ip
    IN  /\ worker[w].pc = "store"
        /\ failed_attempts' = [failed_attempts EXCEPT ![ip] = worker[w].tmp + 1]
        /\ increments' = [increments EXCEPT ![ip] = @ + 1]
        /\ worker' = [worker EXCEPT ![w].nth = increments'[ip], ![w].pc = "check"]
        /\ UNCHANGED <<gen, ssh, calls>>

\* variant: the threshold compared with the highest counter of any identity,
\* as with one counter shared by all identities
CheckSharedCounter(w) ==
    LET r == worker[w]
        count == CHOOSE c \in {failed_attempts[ip] : ip \in Identities} :
                     \A ip \in Identities : c >= failed_attempts[ip]
        s == Bruteforce([risk |-> r.risk, tags |-> r.tags], count)
    IN  /\ r.pc = "check"
        /\ worker' = [worker EXCEPT ![w] =
               Respond([r EXCEPT !.seen = count], Finish(s, r.path))]
        /\ UNCHANGED <<failed_attempts, increments, gen, ssh, calls>>

\* if failed_attempts[ip] > 5 and the rest of the request
Check(w) ==
    LET r == worker[w]
        count == failed_attempts[r.ip]
        s == Bruteforce([risk |-> r.risk, tags |-> r.tags], count)
    IN  /\ r.pc = "check"
        /\ worker' = [worker EXCEPT ![w] =
               Respond([r EXCEPT !.seen = count], Finish(s, r.path))]
        /\ UNCHANGED <<failed_attempts, increments, gen, ssh, calls>>

\* no shell connection
NoSession ==
    [pc |-> "none", ip |-> "", chan |-> "none", transport |-> "none",
     buffer |-> "", out |-> <<>>, chunks |-> <<>>, candidates |-> <<>>,
     fault |-> ""]

GenIdle == [attack_type |-> "", risk_score |-> 0, path |-> "", called |-> FALSE, out |-> ""]

Init ==
    /\ failed_attempts = [ip \in Identities |-> 0]
    /\ increments = [ip \in Identities |-> 0]
    /\ worker = [w \in Workers |-> IdleWorker]
    /\ gen = GenIdle
    /\ ssh = NoSession
    /\ calls = <<>>

\* the requests the concurrent specification draws from
RaceIdentities == {"10.0.0.1"}

RaceForms == {[username |-> "admin' OR '1'='1", password |-> "test"]}

RaceAnyPaths == {"phpmyadmin"}

RaceBodies == {""}

Requests(ws, ips, forms, anyPaths, bodies) ==
    \/ \E w \in ws, ip \in ips : Index(w, ip)
    \/ \E w \in ws, ip \in ips, m \in Methods, p \in ADMIN_PATHS, f \in forms :
           FakeLogin(w, ip, m, p, f)
    \/ \E w \in ws, ip \in ips, m \in Methods, p \in anyPaths, b \in bodies :
           CatchAll(w, ip, m, p, b)

Steps(ws) ==
    \/ \E w \in ws : Load(w)
    \/ \E w \in ws : Store(w)
    \/ \E w \in ws : Check(w)

\* requests are handled concurrently, one thread each
Next ==
    \/ Requests(Workers, RaceIdentities, RaceForms, RaceAnyPaths, RaceBodies)
    \/ Steps(Workers)

Spec == Init /\ [][Next]_vars

\* requests are handled one after another, by one thread
NextSeq ==
    \/ Requests({"w1"}, Identities, Forms, AnyPaths, Bodies)
    \/ Steps({"w1"})

SpecSeq == Init /\ [][NextSeq]_vars

\* admin-path GET requests of both identities, handled concurrently
NextTwo ==
    \/ \E w \in Workers, ip \in Identities, f \in RaceForms :
           FakeLogin(w, ip, "GET", "/admin", f)
    \/ Steps(Workers)

SpecTwo == Init /\ [][NextTwo]_vars

-----------------------------------------------------------------------------
(* generate_response on its own: the inputs are drawn at the start, one call *)
(* is made                                                                   *)

\* the first tags of analyze_request, "Normal", the empty tag, a tag no
\* branch knows and a tag in the wrong case
GenTags == AttackTypes \cup {"", "Recon", "scanner"}

GenScores == {-1, 0, 2, 3, 4, 5, 6, 13}

GenPaths == {"", "/", "/admin", "/ADMIN/panel", "/phpmyadmin", "/index.html"}

InitGen ==
    /\ failed_attempts = [ip \in Identities |-> 0]
    /\ increments = [ip \in Identities |-> 0]
    /\ worker = [w \in Workers |-> IdleWorker]
    /\ \E t \in GenTags, r \in GenScores, p \in GenPaths :
           gen = [GenIdle EXCEPT !.attack_type = t, !.risk_score = r, !.path = p]
    /\ ssh = NoSession
    /\ calls = <<>>

GenerateResponse ==
    /\ ~gen.called
    /\ \E text \in generate_response(gen.attack_type, gen.risk_score, gen.path) :
           gen' = [gen EXCEPT !.called = TRUE, !.out = text]
    /\ UNCHANGED <<failed_attempts, increments, worker, ssh, calls>>

NextGen == GenerateResponse

SpecGen == InitGen /\ [][NextGen]_vars

-----------------------------------------------------------------------------
(* The signature matcher called on its own: web_honeypot.py is_sqli and    *)
(* is_xss.  calls is the history of the calls made: the function, its      *)
(* argument and the value it returned.  The functions read their argument  *)
(* and the module-level pattern lists, which no statement assigns to.      *)

MaxCalls == 2

Matchers == {"is_sqli", "is_xss"}

\* the value fn(text) returns
Matches(fn, text) ==
    IF fn = "is_sqli" THEN text \in SqliPayloads ELSE text \in XssPayloads

\* variant: a matcher that keeps the position of its last match, as a
\* compiled pattern searched from a remembered offset does, and so misses
\* the text it has just matched
CallMatcherFromLastMatch(fn, text) ==
    /\ Len(calls) < MaxCalls
    /\ LET last == IF calls = <<>> THEN [fn |-> "", text |-> "", result |-> FALSE]
                   ELSE calls[Len(calls)]
           repeated == last.fn = fn /\ last.text = text /\ last.result
       IN  calls' = Append(calls, [fn |-> fn, text |-> text,
                                   result |-> Matches(fn, text) /\ ~repeated])
    /\ UNCHANGED <<failed_attempts, worker, increments, gen, ssh>>

\* one call of is_sqli(text) or is_xss(text)
CallMatcher(fn, text) ==
    /\ Len(calls) < MaxCalls
    /\ calls' = Append(calls, [fn |-> fn, text |-> text,
                               result |-> Matches(fn, text)])
    /\ UNCHANGED <<failed_attempts, worker, increments, gen, ssh>>

\* calls of the matcher, with requests to /admin of one worker in between
NextMatch ==
    \/ \E fn \in Matchers, text \in Payloads : CallMatcher(fn, text)
    \/ \E ip \in RaceIdentities, m \in Methods, f \in RaceForms :
           FakeLogin("w1", ip, m, "/admin", f)
    \/ Steps({"w1"})

SpecMatch == Init /\ [][NextMatch]_vars

-----------------------------------------------------------------------------
(* The shell session: ssh_honeypot.py, handle_client.  One connection is   *)
(* served by one thread that owns its buffer, channel and transport.  The  *)
(* field out is the session's history in program order: what chan.send     *)
(* put on the channel and what log_event appended to the sink.  chunks is  *)
(* the history of what chan.recv returned, candidates the history of the   *)
(* values of command (line 81), fault the last exception raised.           *)
(* Received chunks are ASCII texts, on which decode("utf-8") changes no    *)
(* character.                                                              *)

MaxChunks == 3

web == <<failed_attempts, worker, increments, gen, calls>>

WELCOME == "Welcome to Ubuntu 20.04 LTS\n"
PROMPT == "$ "
LOGOUT == "logout\n"
LISTING == "config.txt  users.db  backup.sql\n"
EXIT_COMMANDS == {"exit", "quit"}

\* what the peer's writes arrive as
ShellChunks ==
    {"ls\n", "exit\n", "  \n", "who", "ami\r", "quit\nls\n", "pwd\ncat x\n"}

Sent(text) == [kind |-> "send", ip |-> "", text |-> text]
Event(ip, command) == [kind |-> "ssh_command", ip |-> ip, text |-> command]

\* the loop condition of line 79
HasLine(buffer) == Contains(buffer, "\n") \/ Contains(buffer, "\r")

\* str.partition(sep) for a one-character sep: <<head, sep, tail>>
partition(s, sep) ==
    IF Contains(s, sep)
    THEN LET i == CHOOSE k \in 1..Len(s) :
                      /\ CharAt(s, k) = sep
                      /\ \A j \in 1..(k - 1) : CharAt(s, j) # sep
         IN  <<SubSeq(s, 1, i - 1), sep, SubSeq(s, i + 1, Len(s))>>
    ELSE <<s, "", "">>

\* str.strip()
strip(s) ==
    LET kept == {k \in 1..Len(s) : ~IsSpace(CharAt(s, k))}
    IN  IF kept = {} THEN ""
        ELSE SubSeq(s, CHOOSE a \in kept : \A k \in kept : a <= k,
                       CHOOSE b \in kept : \A k \in kept : b >= k)

\* variant: a buffer without "\n" is left as it is
NextLineUpToNewline(buffer) ==
    LET parts == partition(buffer, "\n")
    IN  [command |-> strip(parts[1]),
         rest |-> IF Contains(buffer, "\n") THEN parts[3] ELSE buffer]

\* lines 80-81
NextLine(buffer) ==
    LET parts == partition(buffer, "\n")
    IN  [command |-> strip(parts[1]), rest |-> parts[3]]

CannedReplyWithoutLs(command) ==
    IF command = "whoami" THEN "root\n"
    ELSE IF command = "pwd" THEN "/root\n"
    ELSE "command not found\n"

\* lines 100-107
CannedReply(command) ==
    IF command = "ls" THEN LISTING
    ELSE IF command = "whoami" THEN "root\n"
    ELSE IF command = "pwd" THEN "/root\n"
    ELSE "command not found\n"

\* chan.close(); transport.close()
Closed(s) == [s EXCEPT !.chan = "closed", !.transport = "closed"]

Raised(s, what) == [s EXCEPT !.fault = what]

\* a connection from addr[0] handed to handle_client
NewSession(ip) ==
    [NoSession EXCEPT !.pc = "start", !.ip = ip, !.transport = "open"]

\* lines 54-55, the handshake succeeds
StartServer ==
    /\ ssh.pc = "start"
    /\ ssh' = [ssh EXCEPT !.pc = "accept"]
    /\ UNCHANGED web

\* lines 56-58
StartServerRaises ==
    /\ ssh.pc = "start"
    /\ ssh' = [Raised(ssh, "transport") EXCEPT !.pc = "returned",
                                               !.transport = "closed"]
    /\ UNCHANGED web

\* line 60, the peer opened a channel
Accept ==
    /\ ssh.pc = "accept"
    /\ ssh' = [ssh EXCEPT !.pc = "welcome", !.chan = "open"]
    /\ UNCHANGED web

\* lines 60-63, no channel within the 20 seconds
AcceptNone ==
    /\ ssh.pc = "accept"
    /\ ssh' = [ssh EXCEPT !.pc = "returned", !.transport = "closed"]
    /\ UNCHANGED web

\* line 65
SendWelcome ==
    /\ ssh.pc = "welcome"
    /\ ssh' = [ssh EXCEPT !.pc = "prompt", !.out = Append(@, Sent(WELCOME))]
    /\ UNCHANGED web

\* line 66
SendPrompt ==
    /\ ssh.pc = "prompt"
    /\ ssh' = [ssh EXCEPT !.pc = "recv", !.out = Append(@, Sent(PROMPT))]
    /\ UNCHANGED web

\* lines 65-66 stand before the try of line 70: an exception of chan.send
\* leaves handle_client, and lines 113-114 are not reached
SendRaisesBeforeTry ==
    /\ ssh.pc \in {"welcome", "prompt"}
    /\ ssh' = [Raised(ssh, "transport") EXCEPT !.pc = "raised"]
    /\ UNCHANGED web

\* lines 72-76
Recv(data) ==
    /\ ssh.pc = "recv"
    /\ Len(ssh.chunks) < MaxChunks
    /\ ssh' = [ssh EXCEPT !.pc = "lines", !.buffer = @ \o data,
                          !.chunks = Append(@, data)]
    /\ UNCHANGED web

\* lines 72-74 and 113-114, the peer closed the channel
RecvEmpty ==
    /\ ssh.pc = "recv"
    /\ ssh' = [Closed(ssh) EXCEPT !.pc = "returned"]
    /\ UNCHANGED web

\* lines 72, 110-114
RecvRaises ==
    /\ ssh.pc = "recv"
    /\ ssh' = [Closed(Raised(ssh, "transport")) EXCEPT !.pc = "returned"]
    /\ UNCHANGED web

\* line 79, the condition is false
NoLine ==
    /\ ssh.pc = "lines"
    /\ ~HasLine(ssh.buffer)
    /\ ssh' = [ssh EXCEPT !.pc = "recv"]
    /\ UNCHANGED web

BlankLineLogged ==
    /\ ssh.pc = "lines"
    /\ HasLine(ssh.buffer)
    /\ LET l == NextLine(ssh.buffer) IN
       /\ l.command = ""
       /\ ssh' = [ssh EXCEPT !.buffer = l.rest,
                             !.candidates = Append(@, l.command),
                             !.out = @ \o <<Event(ssh.ip, l.command),
                                            Sent(PROMPT)>>]
    /\ UNCHANGED web

\* lines 79-85
BlankLine ==
    /\ ssh.pc = "lines"
    /\ HasLine(ssh.buffer)
    /\ LET l == NextLine(ssh.buffer) IN
       /\ l.command = ""
       /\ ssh' = [ssh EXCEPT !.buffer = l.rest,
                             !.candidates = Append(@, l.command),
                             !.out = Append(@, Sent(PROMPT))]
    /\ UNCHANGED web

\* lines 79-85, chan.send raises; lines 110-114
BlankLineRaises ==
    /\ ssh.pc = "lines"
    /\ HasLine(ssh.buffer)
    /\ LET l == NextLine(ssh.buffer) IN
       /\ l.command = ""
       /\ ssh' = [Closed(Raised(ssh, "transport")) EXCEPT
                      !.pc = "returned", !.buffer = l.rest,
                      !.candidates = Append(@, l.command)]
    /\ UNCHANGED web

CommandReplyFirst ==
    /\ ssh.pc = "lines"
    /\ HasLine(ssh.buffer)
    /\ LET l == NextLine(ssh.buffer) IN
       /\ l.command # ""
       /\ l.command \notin EXIT_COMMANDS
       /\ ssh' = [ssh EXCEPT !.buffer = l.rest,
                             !.candidates = Append(@, l.command),
                             !.out = @ \o <<Sent(CannedReply(l.command)),
                                            Event(ssh.ip, l.command),
                                            Sent(PROMPT)>>]
    /\ UNCHANGED web

\* lines 79-92 and 100-109
Command ==
    /\ ssh.pc = "lines"
    /\ HasLine(ssh.buffer)
    /\ LET l == NextLine(ssh.buffer) IN
       /\ l.command # ""
       /\ l.command \notin EXIT_COMMANDS
       /\ ssh' = [ssh EXCEPT !.buffer = l.rest,
                             !.candidates = Append(@, l.command),
                             !.out = @ \o <<Event(ssh.ip, l.command),
                                            Sent(CannedReply(l.command)),
                                            Sent(PROMPT)>>]
    /\ UNCHANGED web

\* lines 79-109, the reply (sent = 0) or the prompt (sent = 1) raises in
\* chan.send; lines 110-114
CommandSendRaises(sent) ==
    /\ ssh.pc = "lines"
    /\ HasLine(ssh.buffer)
    /\ LET l == NextLine(ssh.buffer) IN
       /\ l.command # ""
       /\ l.command \notin EXIT_COMMANDS
       /\ ssh' = [Closed(Raised(ssh, "transport")) EXCEPT
                      !.pc = "returned", !.buffer = l.rest,
                      !.candidates = Append(@, l.command),
                      !.out = @ \o SubSeq(<<Event(ssh.ip, l.command),
                                            Sent(CannedReply(l.command))>>,
                                          1, 1 + sent)]
    /\ UNCHANGED web

\* lines 79-92, log_event raises (the file cannot be opened or written);
\* lines 110-114
LogEventRaises ==
    /\ ssh.pc = "lines"
    /\ HasLine(ssh.buffer)
    /\ LET l == NextLine(ssh.buffer) IN
       /\ l.command # ""
       /\ ssh' = [Closed(Raised(ssh, "sink")) EXCEPT
                      !.pc = "returned", !.buffer = l.rest,
                      !.candidates = Append(@, l.command)]
    /\ UNCHANGED web

ExitAndContinue ==
    /\ ssh.pc = "lines"
    /\ HasLine(ssh.buffer)
    /\ LET l == NextLine(ssh.buffer) IN
       /\ l.command \in EXIT_COMMANDS
       /\ ssh' = [ssh EXCEPT !.buffer = l.rest,
                             !.candidates = Append(@, l.command),
                             !.out = @ \o <<Event(ssh.ip, l.command),
                                            Sent(LOGOUT)>>]
    /\ UNCHANGED web

\* lines 79-98
Exit ==
    /\ ssh.pc = "lines"
    /\ HasLine(ssh.buffer)
    /\ LET l == NextLine(ssh.buffer) IN
       /\ l.command \in EXIT_COMMANDS
       /\ ssh' = [Closed(ssh) EXCEPT
                      !.pc = "returned", !.buffer = l.rest,
                      !.candidates = Append(@, l.command),
                      !.out = @ \o <<Event(ssh.ip, l.command),
                                     Sent(LOGOUT)>>]
    /\ UNCHANGED web

\* lines 94-95, chan.send raises; lines 110-114
ExitSendRaises ==
    /\ ssh.pc = "lines"
    /\ HasLine(ssh.buffer)
    /\ LET l == NextLine(ssh.buffer) IN
       /\ l.command \in EXIT_COMMANDS
       /\ ssh' = [Closed(Raised(ssh, "transport")) EXCEPT
                      !.pc = "returned", !.buffer = l.rest,
                      !.candidates = Append(@, l.command),
                      !.out = Append(@, Event(ssh.ip, l.command))]
    /\ UNCHANGED web

InitShell ==
    /\ failed_attempts = [ip \in Identities |-> 0]
    /\ increments = [ip \in Identities |-> 0]
    /\ worker = [w \in Workers |-> IdleWorker]
    /\ gen = GenIdle
    /\ \E ip \in Identities : ssh = NewSession(ip)
    /\ calls = <<>>

\* one session, the transport and the sink work
NextShell ==
    \/ StartServer
    \/ Accept
    \/ AcceptNone
    \/ SendWelcome
    \/ SendPrompt
    \/ \E data \in ShellChunks : Recv(data)
    \/ RecvEmpty
    \/ NoLine
    \/ BlankLine
    \/ Command
    \/ Exit

SpecShell == InitShell /\ [][NextShell]_vars

-----------------------------------------------------------------------------
(* Failures of the collaborators: the transport of a shell session raises  *)
(* in send or recv, the event sink (the log file) raises in log_event.     *)

\* the response Flask makes of an exception that leaves a view function
INTERNAL_SERVER_ERROR == "500 Internal Server Error"

\* catch_all(any_path), log_event raises: the exception leaves the view
\* function before generate_response is called
CatchAllLogEventRaises(w, ip, method, any_path, body) ==
    LET path == "/" \o any_path
        data_str == IF method = "POST" THEN body ELSE ""
        r == [IdleWorker EXCEPT !.view = "catch_all", !.ip = ip,
                                !.method = method, !.path = path,
                                !.data = data_str]
        s == Finish(Signatures(data_str), path)
    IN  /\ Free(w)
        /\ Route(path) = "catch_all"
        /\ worker' = [worker EXCEPT ![w] =
               [r EXCEPT !.risk = s.risk, !.tags = s.tags, !.pc = "done",
                         !.status = 500, !.body = {INTERNAL_SERVER_ERROR}]]
        /\ UNCHANGED <<failed_attempts, increments, gen, ssh, calls>>

\* one shell session and one HTTP request at a time, with collaborators
\* that can fail
NextFault ==
    \/ NextShell
    \/ StartServerRaises
    \/ SendRaisesBeforeTry
    \/ RecvRaises
    \/ BlankLineRaises
    \/ \E sent \in {0, 1} : CommandSendRaises(sent)
    \/ LogEventRaises
    \/ ExitSendRaises
    \/ \E ip \in RaceIdentities, m \in Methods, p \in RaceAnyPaths,
          b \in RaceBodies : CatchAll("w1", ip, m, p, b)
    \/ \E ip \in RaceIdentities, m \in Methods, p \in RaceAnyPaths,
          b \in RaceBodies : CatchAllLogEventRaises("w1", ip, m, p, b)

SpecFault == InitShell /\ [][NextFault]_vars

-----------------------------------------------------------------------------
(* The two honeypots side by side: HTTP requests of one worker and one     *)
(* shell session.  They are separate programs; the shell has no access to  *)
(* failed_attempts.                                                        *)

BothChunks == {"ls\n", "  \n", "exit\n"}

NextBoth ==
    \/ Requests({"w1"}, RaceIdentities, RaceForms, RaceAnyPaths, RaceBodies)
    \/ Steps({"w1"})
    \/ StartServer
    \/ Accept
    \/ SendWelcome
    \/ SendPrompt
    \/ \E data \in BothChunks : Recv(data)
    \/ NoLine
    \/ BlankLine
    \/ Command
    \/ Exit

SpecBoth == InitShell /\ [][NextBoth]_vars

-----------------------------------------------------------------------------
(* Properties *)

HasTag(tags, t) == \E i \in 1..Len(tags) : tags[i] = t

\* worker w holds the outcome of a request that went through analyze_request
Analyzed(w) == worker[w].pc = "done" /\ worker[w].view \in {"fake_login", "catch_all"}

\* weight of a tag in the score
Weight(t) ==
    CASE t = "SQLi" -> 5
      [] t = "XSS" -> 5
      [] t = "Bruteforce" -> 3
      [] t = "Scanner" -> 2
      [] t = "Low-Risk" -> 0

RECURSIVE SumOfWeights(_)
SumOfWeights(tags) ==
    IF Len(tags) = 0 THEN 0 ELSE Weight(Head(tags)) + SumOfWeights(Tail(tags))

\* the detector tags whose condition holds for the request of record r, from
\* the request and the count it compared
Fired(r) ==
    {t \in {"SQLi", "XSS", "Bruteforce", "Scanner"} :
        \/ t = "SQLi" /\ is_sqli(r.data)
        \/ t = "XSS" /\ is_xss(r.data)
        \/ t = "Bruteforce" /\ r.path \in {"/admin", "/login"} /\ r.seen > 5
        \/ t = "Scanner" /\ \E m \in {"phpmyadmin", "wp-admin", ".env", "config"} :
                                Contains(lower(r.path), m)}

\* position of a detector tag in the fixed check order
Rank(t) ==
    CASE t = "SQLi" -> 1
      [] t = "XSS" -> 2
      [] t = "Bruteforce" -> 3
      [] t = "Scanner" -> 4
      [] OTHER -> 0

\* C1: no increment of an identity's counter is lost: the counter equals the
\* number of admin/login interactions of that identity that have completed
\* their increment.
NoLostIncrement ==
    \A ip \in Identities : failed_attempts[ip] = increments[ip]

\* C2: increment and comparison are one atomic step: the count an
\* admin/login interaction compares with the threshold is the one its own
\* increment produced, and it is tagged Bruteforce exactly when its increment
\* is not among the first five of its identity.
AtomicIncrementAndCompare ==
    \A w \in Workers :
        (worker[w].pc = "done" /\ worker[w].view = "fake_login") =>
            /\ worker[w].seen = worker[w].tmp + 1
            /\ HasTag(worker[w].tags, "Bruteforce") <=> worker[w].nth > 5

\* C3: with the interactions of an identity processed one after another from
\* a fresh counter, the k-th admin/login interaction is tagged Bruteforce if
\* and only if k >= 6.
BruteforceFromSixth ==
    \A w \in Workers :
        (worker[w].pc = "done" /\ worker[w].view = "fake_login") =>
            (HasTag(worker[w].tags, "Bruteforce") <=> worker[w].nth >= 6)

SixthIsBruteforce ==
    \E w \in Workers :
        /\ worker[w].pc = "done" /\ worker[w].view = "fake_login"
        /\ worker[w].nth = 6
        /\ HasTag(worker[w].tags, "Bruteforce")

\* C4: the score analyze_request returns is the sum of the weights of exactly
\* the tags it returns, and is never negative.
ScoreIsSumOfWeights ==
    \A w \in Workers :
        Analyzed(w) =>
            /\ worker[w].risk = SumOfWeights(worker[w].tags)
            /\ worker[w].risk >= 0

ThreeDetectorsScored ==
    \E w \in Workers :
        /\ Analyzed(w)
        /\ worker[w].tags = <<"SQLi", "XSS", "Bruteforce">>
        /\ worker[w].risk = 13

\* C5: the tag list is never empty; it contains Low-Risk if and only if no
\* detector fired, and then Low-Risk is its only tag and the score is 0.
LowRiskIffNoDetector ==
    \A w \in Workers :
        Analyzed(w) =>
            /\ Len(worker[w].tags) > 0
            /\ HasTag(worker[w].tags, "Low-Risk") <=> Fired(worker[w]) = {}
            /\ HasTag(worker[w].tags, "Low-Risk") =>
                   worker[w].tags = <<"Low-Risk">> /\ worker[w].risk = 0

LowRiskReturned ==
    \E w \in Workers :
        /\ Analyzed(w)
        /\ Fired(worker[w]) = {}
        /\ worker[w].tags = <<"Low-Risk">>

\* C6: a tag list other than [Low-Risk] is a duplicate-free subsequence of
\* [SQLi, XSS, Bruteforce, Scanner], and its first tag is the earliest
\* detector that fired.
TagsInCheckOrder ==
    \A w \in Workers :
        (Analyzed(w) /\ worker[w].tags # <<"Low-Risk">>) =>
            LET tags == worker[w].tags
            IN  /\ \A i \in 1..Len(tags) : Rank(tags[i]) > 0
                /\ \A i, j \in 1..Len(tags) : i < j => Rank(tags[i]) < Rank(tags[j])
                /\ tags[1] \in Fired(worker[w])
                /\ \A t \in Fired(worker[w]) : Rank(tags[1]) <= Rank(t)

SqliBeforeScanner ==
    \E w \in Workers :
        /\ Analyzed(w)
        /\ worker[w].tags = <<"SQLi", "Scanner">>

\* C7: no step ever lowers or resets the counter of an identity.
CounterMonotonic ==
    [][\A ip \in Identities : failed_attempts'[ip] >= failed_attempts[ip]]_vars

\* the arm of the six-arm first-match policy, as the set of texts of its
\* generator
PolicyArm(tag, score, path) ==
    IF score >= 5 /\ tag \in {"Scanner", "SQLi", "XSS"} THEN juicy_secrets
    ELSE IF score >= 5 /\ tag = "Bruteforce" THEN fake_account_locked
    ELSE IF tag = "Scanner" THEN fake_ls
    ELSE IF tag \in {"SQLi", "XSS"} THEN fake_error
    ELSE IF Contains(lower(path), "admin") THEN fake_admin_page
    ELSE fake_error

\* C8: generate_response returns a text of exactly the arm the six-arm
\* first-match policy gives for (tag, score, path), whatever the random
\* draws.
SelectsPolicyArm ==
    gen.called => gen.out \in PolicyArm(gen.attack_type, gen.risk_score, gen.path)

LockoutArmTaken ==
    /\ gen.called
    /\ gen.attack_type = "Bruteforce"
    /\ gen.risk_score >= 5
    /\ gen.out \in fake_account_locked

\* C9: generate_response returns a text, never the empty string, for every
\* tag, score and path; an empty or unknown tag gets the admin dashboard when
\* the path contains "admin" and a generic error otherwise.
NeverEmptyResponse ==
    /\ ~gen.called =>
           generate_response(gen.attack_type, gen.risk_score, gen.path) # {}
    /\ gen.called =>
           /\ Len(gen.out) > 0
           /\ gen.attack_type \in {"", "Recon", "scanner"} =>
                  gen.out \in (IF Contains(lower(gen.path), "admin")
                               THEN fake_admin_page ELSE fake_error)

EmptyTagAndPathAnswered ==
    /\ gen.called
    /\ gen.attack_type = ""
    /\ gen.path = ""
    /\ gen.out \in fake_error

\* a POST to /admin whose form carries a SQL-injection signature has been
\* answered by worker w
SqliPostOnAdmin(w) ==
    /\ worker[w].pc = "done"
    /\ worker[w].path = "/admin"
    /\ worker[w].method = "POST"
    /\ is_sqli(worker[w].data)

\* C10, as stated: an interaction on /admin whose payload carries a
\* SQL-injection signature is tagged SQLi, scores at least 5, and is answered
\* with the fabricated leaked-credentials artifact.
SqliOnAdminLeaksCredentials ==
    \A w \in Workers :
        SqliPostOnAdmin(w) =>
            /\ HasTag(worker[w].tags, "SQLi")
            /\ worker[w].risk >= 5
            /\ worker[w].body \subseteq juicy_secrets

\* C10, amended: a POST to /admin whose form fields carry a SQL-injection
\* signature is tagged SQLi and scores at least 5, and it is answered with
\* the fixed "Invalid credentials" text and status 401, never with the
\* leaked-credentials artifact.
SqliOnAdminGetsInvalidCredentials ==
    \A w \in Workers :
        SqliPostOnAdmin(w) =>
            /\ HasTag(worker[w].tags, "SQLi")
            /\ worker[w].risk >= 5
            /\ worker[w].body = {"Invalid credentials. Please try again."}
            /\ worker[w].status = 401
            /\ worker[w].body \cap juicy_secrets = {}

SqliPostOnAdminAnswered ==
    \E w \in Workers :
        /\ SqliPostOnAdmin(w)
        /\ worker[w].data = "admin' OR '1'='1 test"
        /\ HasTag(worker[w].tags, "SQLi")

RECURSIVE Lines(_)
\* the lines of a text, split at "\n"
Lines(text) ==
    IF \E i \in 1..Len(text) : CharAt(text, i) = "\n"
    THEN LET i == CHOOSE k \in 1..Len(text) :
                      /\ CharAt(text, k) = "\n"
                      /\ \A m \in 1..(k - 1) : CharAt(text, m) # "\n"
         IN  <<SubSeq(text, 1, i - 1)>> \o Lines(SubSeq(text, i + 1, Len(text)))
    ELSE <<text>>

\* worker w has answered a request with an empty payload on a path that
\* contains a reconnaissance marker
EmptyProbe(w) ==
    /\ Analyzed(w)
    /\ worker[w].data = ""
    /\ \E m \in {"phpmyadmin", "wp-admin", ".env", "config"} :
           Contains(lower(worker[w].path), m)

\* C11: an interaction with an empty payload on a path containing a
\* reconnaissance marker gets tags exactly [Scanner] and score exactly 2,
\* whatever the counter of its identity, and is answered with a directory
\* listing of at least 3 distinct entries, all from the filename pool.
ScannerProbeListed ==
    \A w \in Workers :
        EmptyProbe(w) =>
            /\ worker[w].tags = <<"Scanner">>
            /\ worker[w].risk = 2
            /\ worker[w].body # {}
            /\ \A text \in worker[w].body :
                   LET files == Lines(text)
                   IN  /\ Len(files) >= 3
                       /\ \A i, j \in 1..Len(files) : i # j => files[i] # files[j]
                       /\ \A i \in 1..Len(files) :
                              \E k \in 1..Len(FAKE_FILES) : files[i] = FAKE_FILES[k]

ProbeAfterBruteforce ==
    \E w \in Workers :
        /\ EmptyProbe(w)
        /\ worker[w].path = "/phpmyadmin"
        /\ failed_attempts[worker[w].ip] > 5
        /\ worker[w].tags = <<"Scanner">>

\* C12: brute-force state is per identity: under any interleaving, an
\* admin-path interaction of an identity that has made fewer than 6 of its
\* own is not tagged Bruteforce and does not get the +3 weight, whatever
\* another identity has reached.
BruteforcePerIdentity ==
    \A w \in Workers :
        (/\ worker[w].pc = "done"
         /\ worker[w].view = "fake_login"
         /\ increments[worker[w].ip] < 6) =>
            /\ ~HasTag(worker[w].tags, "Bruteforce")
            /\ worker[w].risk = Signatures(worker[w].data).risk

OtherIdentityNotFlagged ==
    \E a, b \in Workers :
        /\ worker[a].pc = "done" /\ worker[a].view = "fake_login"
        /\ worker[b].pc = "done" /\ worker[b].view = "fake_login"
        /\ worker[a].ip # worker[b].ip
        /\ worker[a].nth = 6
        /\ HasTag(worker[a].tags, "Bruteforce") /\ worker[a].risk >= 3
        /\ increments[worker[b].ip] < 6
        /\ ~HasTag(worker[b].tags, "Bruteforce")

\* C13: every HTTP interaction, on any path and with either method, emits
\* exactly one event record.
OneEventPerInteraction ==
    \A w \in Workers : worker[w].pc = "done" => worker[w].logged = 1


\* the history of a session from ip that was sent items after the banner
\* and the first prompt
History(items) == <<Sent("Welcome to Ubuntu 20.04 LTS\n"), Sent("$ ")>> \o items

\* C14: a session that receives "ls\n" and then "exit\n" replies with the
\* fixed listing and a prompt, then with the logout banner, and has returned
\* with channel and transport closed; nothing follows the logout banner.
ListingThenLogout ==
    /\ (ssh.chunks = <<"ls\n">> /\ ssh.pc = "recv") =>
           /\ ssh.out = History(<<Event(ssh.ip, "ls"),
                                  Sent("config.txt  users.db  backup.sql\n"),
                                  Sent("$ ")>>)
           /\ ssh.chan = "open"
    /\ (ssh.chunks = <<"ls\n", "exit\n">> /\ ssh.pc = "returned") =>
           /\ ssh.out = History(<<Event(ssh.ip, "ls"),
                                  Sent("config.txt  users.db  backup.sql\n"),
                                  Sent("$ "),
                                  Event(ssh.ip, "exit"),
                                  Sent("logout\n")>>)
           /\ ssh.chan = "closed"
           /\ ssh.transport = "closed"

LsThenExitTerminated ==
    /\ ssh.chunks = <<"ls\n", "exit\n">>
    /\ ssh.pc = "returned"
    /\ ssh.out[Len(ssh.out)] = Sent("logout\n")
    /\ ssh.chan = "closed"

\* C15: once an exit or quit command has been dispatched the session has
\* returned and is closed: that command is the last candidate taken from the
\* buffer, whatever complete lines stand behind it, and the logout banner is
\* the last item of the history.
TerminatedIsFinal ==
    /\ \A i \in 1..Len(ssh.candidates) :
           ssh.candidates[i] \in {"exit", "quit"} =>
               /\ i = Len(ssh.candidates)
               /\ ssh.pc = "returned"
               /\ ssh.chan = "closed"
    /\ \A i \in 1..Len(ssh.out) :
           ssh.out[i] = Sent("logout\n") => i = Len(ssh.out)

LineBehindExitIgnored ==
    /\ ssh.pc = "returned"
    /\ ssh.chunks = <<"quit\nls\n">>
    /\ ssh.buffer = "ls\n"
    /\ ssh.candidates = <<"quit">>
    /\ ssh.out[Len(ssh.out)] = Sent("logout\n")

\* the step takes a candidate command from the buffer
Takes(command) ==
    /\ Len(ssh'.candidates) = Len(ssh.candidates) + 1
    /\ ssh'.candidates[Len(ssh'.candidates)] = command

\* C16: a step that takes a blank candidate command adds exactly one prompt
\* to the history, no event and no reply, and leaves the session open in
\* its receive loop.
BlankLineOnlyPrompts ==
    [][Takes("") =>
           /\ ssh'.out = Append(ssh.out, Sent("$ "))
           /\ ssh'.chan = "open"
           /\ ssh'.transport = "open"
           /\ ssh'.pc = "lines"]_vars

BlankLinePrompted ==
    /\ ssh.chunks = <<"  \n">>
    /\ ssh.candidates = <<"">>
    /\ ssh.pc = "recv"
    /\ ssh.out = History(<<Sent("$ ")>>)

\* the canned reply table as the claim states it
ReplyFor(command) ==
    CASE command = "ls" -> "config.txt  users.db  backup.sql\n"
      [] command = "whoami" -> "root\n"
      [] command = "pwd" -> "/root\n"
      [] OTHER -> "command not found\n"

\* C17: a step that takes a non-empty candidate command that is not an exit
\* keyword adds to the history, in this order, one event with the session's
\* identity and the command, one reply from the canned table, and one
\* prompt, and leaves the session open in its receive loop.
CommandLoggedRepliedPrompted ==
    [][LET c == ssh'.candidates[Len(ssh'.candidates)] IN
       (Takes(c) /\ c \notin {"", "exit", "quit"}) =>
           /\ ssh'.out = ssh.out \o <<Event(ssh.ip, c), Sent(ReplyFor(c)),
                                      Sent("$ ")>>
           /\ ssh'.chan = "open"
           /\ ssh'.transport = "open"
           /\ ssh'.pc = "lines"]_vars

UnknownCommandAnswered ==
    /\ ssh.chunks = <<"pwd\ncat x\n">>
    /\ ssh.candidates = <<"pwd", "cat x">>
    /\ ssh.pc = "recv"
    /\ ssh.out = History(<<Event(ssh.ip, "pwd"), Sent("/root\n"), Sent("$ "),
                           Event(ssh.ip, "cat x"),
                           Sent("command not found\n"), Sent("$ ")>>)

\* C18: after the channel is accepted, an exception of the transport leaves
\* the session returned with channel and transport closed, and so does the
\* peer's close; the history holds no event but those of the commands taken.
DisconnectClosesSession ==
    /\ (ssh.chan # "none" /\ ssh.fault = "transport") =>
           /\ ssh.pc = "returned"
           /\ ssh.chan = "closed"
           /\ ssh.transport = "closed"
    /\ \A i \in 1..Len(ssh.out) :
           ssh.out[i].kind # "send" =>
               \E j \in 1..Len(ssh.candidates) :
                   ssh.out[i] = Event(ssh.ip, ssh.candidates[j])

\* C19: a failure of the event sink does not abort the interaction: the
\* catch-all handler still answers 200 with generated content, and the shell
\* session is still open after the command, its history ending with the
\* command's reply and a prompt.
SinkFailureDoesNotAbort ==
    /\ \A w \in Workers :
           (worker[w].pc = "done" /\ worker[w].view = "catch_all") =>
               /\ worker[w].status = 200
               /\ worker[w].body =
                      Responses[IF Len(worker[w].tags) > 0
                                THEN worker[w].tags[1] ELSE "Normal",
                                worker[w].risk, worker[w].path]
    /\ ssh.fault = "sink" =>
           /\ ssh.chan = "open"
           /\ ssh.transport = "open"
           /\ Len(ssh.out) >= 2
           /\ ssh.out[Len(ssh.out)] = Sent("$ ")
           /\ ssh.out[Len(ssh.out) - 1] =
                  Sent(ReplyFor(ssh.candidates[Len(ssh.candidates)]))

RECURSIVE Concat(_)
Concat(texts) == IF texts = <<>> THEN "" ELSE Head(texts) \o Concat(Tail(texts))

\* the candidate commands and the remaining buffer of the receive loop when
\* text arrives as one chunk on an empty buffer
RECURSIVE OneChunk(_)
OneChunk(text) ==
    IF ~HasLine(text) THEN [candidates |-> <<>>, buffer |-> text]
    ELSE LET l == NextLine(text)
             after == OneChunk(l.rest)
         IN  IF l.command \in EXIT_COMMANDS
             THEN [candidates |-> <<l.command>>, buffer |-> l.rest]
             ELSE [candidates |-> <<l.command>> \o after.candidates,
                   buffer |-> after.buffer]

\* C20: when the session waits for input, the candidate commands it has
\* taken and the text left in its buffer are those of the concatenation of
\* the received chunks arriving as one chunk, and the buffer holds no line
\* terminator.
ChunkingIrrelevant ==
    ssh.pc = "recv" =>
        /\ ssh.candidates = OneChunk(Concat(ssh.chunks)).candidates
        /\ ssh.buffer = OneChunk(Concat(ssh.chunks)).buffer
        /\ ~Contains(ssh.buffer, "\n")
        /\ ~Contains(ssh.buffer, "\r")

CounterOnlyOnAdminPaths ==
    [][/\ (failed_attempts' # failed_attempts \/ increments' # increments) =>
              \E w \in Workers :
                  /\ worker[w].pc = "store"
                  /\ worker'[w].pc = "check"
                  /\ worker[w].path \in {"/admin", "/login"}
                  /\ increments'[worker[w].ip] = increments[worker[w].ip] + 1
                  /\ \A ip \in Identities \ {worker[w].ip} :
                         /\ failed_attempts'[ip] = failed_attempts[ip]
                         /\ increments'[ip] = increments[ip]
       /\ \A w \in Workers :
              (worker'[w].pc = "done" /\ worker'[w] # worker[w]) =>
                  IF worker'[w].path \in {"/admin", "/login"}
                  THEN /\ worker'[w].nth = increments[worker'[w].ip]
                       /\ worker[w].pc = "check"
                  ELSE /\ worker'[w].nth = 0
                       /\ failed_attempts' = failed_attempts
       /\ ssh' # ssh => failed_attempts' = failed_attempts]_vars

CountedBesideShellCommand ==
    /\ ssh.candidates = <<"ls">>
    /\ worker["w1"].pc = "done"
    /\ worker["w1"].path = "/phpmyadmin"
    /\ failed_attempts["10.0.0.1"] = 2
    /\ increments["10.0.0.1"] = 2

\* C23: a flagged identity stays flagged: when an interaction on /admin or
\* /login is tagged Bruteforce, every interaction of that identity on these
\* paths that counts itself later is tagged Bruteforce too.
FlaggedStaysFlagged ==
    \A a, b \in Workers :
        (/\ worker[a].pc = "done" /\ worker[a].view = "fake_login"
         /\ worker[b].pc = "done" /\ worker[b].view = "fake_login"
         /\ worker[a].ip = worker[b].ip
         /\ worker[a].nth < worker[b].nth
         /\ HasTag(worker[a].tags, "Bruteforce")) =>
            HasTag(worker[b].tags, "Bruteforce")

\* a worker stands inside analyze_request, at an access to the counter
InAnalysis(w) == worker[w].pc \in {"load", "store", "check"}

\* C24: the tracker cannot block: a worker inside the risk analysis can take
\* its next step in every reachable state, whatever the other worker does and
\* whichever identity the other worker serves.
AnalysisNeverBlocked ==
    \A w \in Workers :
        /\ worker[w].pc = "load" => ENABLED Load(w)
        /\ worker[w].pc = "store" => ENABLED Store(w)
        /\ worker[w].pc = "check" => ENABLED Check(w)

BothInsideAnalysis ==
    /\ InAnalysis("w1")
    /\ InAnalysis("w2")
    /\ worker["w1"].ip # worker["w2"].ip
    /\ worker["w1"].pc = "store"
    /\ worker["w2"].pc = "store"

\* the payload of the analysed request of w matches a signature
SignatureHit(w) == is_sqli(worker[w].data) \/ is_xss(worker[w].data)

\* C25: no detector is skipped because an earlier one fired: a payload that
\* matches both signatures is tagged SQLi and XSS and scores at least 10, and
\* on top of a signature hit the Bruteforce tag (counter above 5 on /admin or
\* /login) and the Scanner tag (marker in the path) are still added with
\* their weights.
DetectionIsAdditive ==
    \A w \in Workers : Analyzed(w) =>
        /\ (is_sqli(worker[w].data) /\ is_xss(worker[w].data)) =>
               /\ SubSeq(worker[w].tags, 1, 2) = <<"SQLi", "XSS">>
               /\ worker[w].risk >= 10
        /\ (/\ SignatureHit(w)
            /\ worker[w].path \in {"/admin", "/login"}
            /\ worker[w].seen > 5) =>
               /\ HasTag(worker[w].tags, "Bruteforce")
               /\ worker[w].risk >= 5 + 3
        /\ (/\ SignatureHit(w)
            /\ \E m \in {"phpmyadmin", "wp-admin", ".env", "config"} :
                   Contains(lower(worker[w].path), m)) =>
               /\ HasTag(worker[w].tags, "Scanner")
               /\ worker[w].risk >= 5 + 2

BothSignaturesOnScannerPath ==
    \E w \in Workers :
        /\ Analyzed(w)
        /\ worker[w].path = "/phpmyadmin"
        /\ worker[w].data = "admin' OR '1'='1<script>x</script>"
        /\ worker[w].tags = <<"SQLi", "XSS", "Scanner">>
        /\ worker[w].risk = 12

\* C26: every interaction on /admin or /login is answered by the login
\* handler with a fixed text: a POST with status 401 and the "Invalid
\* credentials" text, a GET with the login page, whatever the credentials,
\* the score, the tags and the counter are.
LoginNeverGranted ==
    \A w \in Workers :
        (worker[w].pc = "done" /\ worker[w].path \in {"/admin", "/login"}) =>
            /\ worker[w].view = "fake_login"
            /\ worker[w].method = "POST" =>
                   /\ worker[w].status = 401
                   /\ worker[w].body = {"Invalid credentials. Please try again."}
            /\ worker[w].method = "GET" =>
                   /\ worker[w].status = 200
                   /\ worker[w].body = {LOGIN_PAGE}

RightCredentialsRefused ==
    \E w \in Workers :
        /\ worker[w].pc = "done"
        /\ worker[w].path = "/login"
        /\ worker[w].method = "POST"
        /\ worker[w].data = "admin admin123"
        /\ worker[w].seen > 5
        /\ worker[w].status = 401

\* C27: no tag list holds both Bruteforce and Scanner, and no risk score
\* exceeds 13.
BruteforceExcludesScanner ==
    \A w \in Workers : Analyzed(w) =>
        /\ ~(HasTag(worker[w].tags, "Bruteforce") /\ HasTag(worker[w].tags, "Scanner"))
        /\ worker[w].risk <= 13

HighestScoreOnAdmin ==
    \E w \in Workers :
        /\ Analyzed(w)
        /\ worker[w].path = "/admin"
        /\ worker[w].method = "POST"
        /\ HasTag(worker[w].tags, "Bruteforce")
        /\ ~HasTag(worker[w].tags, "Scanner")
        /\ worker[w].risk = 13

\* C28: an analysis whose first tag is Bruteforce scored 3 and one whose
\* first tag is Scanner scored 2; a catch-all interaction that scored 5 or
\* more has SQLi or XSS as its first tag and is answered from the fake
\* credential dump; no HTTP interaction is answered with the "account
\* temporarily locked" notice.
PrimaryTagBoundsScore ==
    \A w \in Workers : Analyzed(w) =>
        /\ worker[w].tags[1] = "Bruteforce" => worker[w].risk = 3
        /\ worker[w].tags[1] = "Scanner" => worker[w].risk = 2
        /\ (worker[w].view = "catch_all" /\ worker[w].risk >= 5) =>
               /\ worker[w].tags[1] \in {"SQLi", "XSS"}
               /\ worker[w].body = juicy_secrets
        /\ worker[w].body \cap fake_account_locked = {}

BruteforcePrimaryScoresThree ==
    \E w \in Workers :
        /\ Analyzed(w)
        /\ worker[w].tags = <<"Bruteforce">>
        /\ worker[w].risk = 3
        /\ worker[w].seen > 5
        /\ worker[w].body \cap fake_account_locked = {}

\* C29: a GET interaction is analysed with the empty payload: it carries
\* neither the SQLi nor the XSS tag and scores at most 3, whatever its path
\* and its body hold.
GetHasNoSignature ==
    \A w \in Workers :
        (Analyzed(w) /\ worker[w].method = "GET") =>
            /\ worker[w].data = ""
            /\ ~HasTag(worker[w].tags, "SQLi")
            /\ ~HasTag(worker[w].tags, "XSS")
            /\ worker[w].risk <= 3

SignatureInGetPathIgnored ==
    \E w \in Workers :
        /\ Analyzed(w)
        /\ worker[w].method = "GET"
        /\ is_sqli(worker[w].path)
        /\ worker[w].tags = <<"Low-Risk">>
        /\ worker[w].risk = 0

\* C30: the line-splitting loop terminates: every step taken inside the loop
\* either leaves it (the session waits for bytes again or has returned) or
\* takes a candidate command and leaves the buffer strictly shorter, also
\* when the buffer holds a carriage return and no newline.
LoopShortensBuffer ==
    [][ssh.pc = "lines" =>
           \/ ssh'.pc \in {"recv", "returned"}
           \/ /\ ssh'.pc = "lines"
              /\ Len(ssh'.candidates) = Len(ssh.candidates) + 1
              /\ Len(ssh'.buffer) < Len(ssh.buffer)]_vars

CarriageReturnLineTaken ==
    /\ ssh.chunks = <<"who", "ami\r">>
    /\ ssh.candidates = <<"whoami">>
    /\ ssh.buffer = ""
    /\ ssh.pc = "recv"
=============================================================================
